---- MODULE Spec2Model ----
(***************************************************************************)
(* State-machine model of the deployment supervisor of fprime-gds,         *)
(* src/fprime_gds/executables/run_deployment.py: main() builds the list of *)
(* launchers from the parsed arguments, calls them one after the other,    *)
(* waits on the last process and maps the way the wait ends to the value   *)
(* handed to sys.exit.                                                     *)
(*                                                                         *)
(* run_wrapped_application (fprime_gds.executables.utils) is not part of   *)
(* the sources at hand; the stabilization probe and the exit-time kill of  *)
(* the processes it started are modelled from the specification document.  *)
(* ServerConfig.launch_openmct_server belongs to the third-party package   *)
(* fprime_openmct: the model lets it either return or raise.               *)
(***************************************************************************)
EXTENDS Integers, Sequences, FiniteSets, TLC

\* Largest number of operator interrupts (CTRL-C) delivered in one run.
MaxInterrupts == 2

\* Longest argument list reproduce_cli_args is taken to return.
MaxArgs == 3

Steps == {"launch_tts", "launch_comm", "launch_app", "launch_html",
          "launch_openmct", "poll_telem"}

AdapterKinds == {"none", "ip", "uart"}

GuiKinds == {"html", "none"}

\* The parsed argument namespace, restricted to the fields main() branches on;
\* installed stands for "fprime_openmct is not None".
Configs == [zmq : BOOLEAN, adapter : AdapterKinds, app : BOOLEAN,
            gui : GuiKinds, openmct : BOOLEAN, installed : BOOLEAN]

VARIABLES
    cfg,        \* parsed_args
    pc,         \* position of the control thread in main()
    launchers,  \* main's list of launchers
    procs,      \* main's list procs: what the launchers called so far returned
    cur,        \* the step whose process is inside its stabilization window
    status,     \* per step: the state of the process it started
    startOrder, \* the steps that started a process, in the order they did
    registered, \* processes registered for the exit-time kill, oldest first
    killPos,    \* exit-time kill: index in registered of the next handler
    termReq,    \* per step: terminate requests its process received
    awaited,    \* steps whose process main has blocked on with wait()
    waitEnd,    \* how procs[-1].wait() ended
    failed,     \* the step whose launcher raised
    raised,     \* the exception that left main() uncaught
    exit_code,  \* the exit status of the supervisor, -1 while it runs
    shutdowns,  \* number of times the exit-time shutdown was entered
    nInt,       \* operator interrupts delivered so far
    intAt,      \* the positions at which an interrupt was delivered
    warned,     \* the [WARNING] of line 211 was printed
    browser,    \* number of webbrowser.open calls
    invoked,    \* the launchers main has called, in the order of the calls
    elapsed,    \* seconds since the process inside its window was started
    probe,      \* per step: what the stabilization probe saw of its process
    report,     \* what launch_process printed and raised on a failure
    argsIn,     \* reproduce_cli_args(parsed_args) of the launcher at hand
    argsOut,    \* the argument list the launcher hands on
    argStage    \* position in the argument derivation

vars == <<cfg, pc, launchers, procs, cur, status, startOrder, registered,
          killPos, termReq, awaited, waitEnd, failed, raised, exit_code,
          shutdowns, nInt, intAt, warned, browser, invoked, elapsed, probe,
          report, argsIn, argsOut, argStage>>

planVars == <<cfg, launchers, warned>>
procVars == <<procs, cur, status, startOrder, registered, browser>>
exitVars == <<killPos, termReq, shutdowns>>
waitVars == <<awaited, waitEnd>>
intVars  == <<nInt, intAt>>
timeVars == <<elapsed, probe>>
argVars  == <<argsIn, argsOut, argStage>>

----------------------------------------------------------------------------
(* The launch plan, lines 196-231 *)

IncludeTts_Always(c) == TRUE

IncludeTts(c) == ~c.zmq

IncludeComm(c) == c.adapter # "none"

IncludeApp_AnyAdapter(c) == c.app

IncludeApp(c) == c.app /\ c.adapter = "ip"

WarnApp_WheneverSkipped(c) == ~(c.app /\ c.adapter = "ip")

\* lines 207-211: the else branch of the inner if
WarnApp(c) == c.app /\ c.adapter # "ip"

Opt(b, s) == IF b THEN <<s>> ELSE <<>>

\* launchers as it stands after line 214
CorePlan(c) ==
    Opt(IncludeTts(c), "launch_tts") \o Opt(IncludeComm(c), "launch_comm")
        \o Opt(IncludeApp(c), "launch_app") \o <<"launch_html">>

\* the launchers appended by lines 228 and 231
BridgePlan(c) == IF c.openmct THEN <<"launch_openmct", "poll_telem">> ELSE <<>>

BridgeMissing_Never(c) == FALSE

\* line 219, reached only under line 217
BridgeMissing(c) == c.openmct /\ ~c.installed

----------------------------------------------------------------------------
(* Helpers of the supervisor loop, lines 233-244 *)

TerminalProc_First(p) == p[1]

\* procs[-1]
TerminalProc(p) == p[Len(p)]

MainReturn_NormalIsError(clause) == IF clause = "KeyboardInterrupt" THEN 0 ELSE 1

\* the value main() returns: 1 from the except Exception clause (line 242),
\* 0 after the except KeyboardInterrupt clause and after a wait that returned
MainReturn(clause) == IF clause = "Exception" THEN 1 ELSE 0

\* exit status of the interpreter when an exception leaves main() uncaught
UncaughtStatus(exc) == IF exc = "KeyboardInterrupt" THEN 130 ELSE 1

\* launchers that go through launch_process (lines 97, 127, 146, 162, 189)
UsesLaunchProcess(s) == s # "launch_openmct"

Handle(s, stable) == [step |-> s, stable |-> stable]

LaunchTime_DefaultForAll(s) == 5

\* launch_time: the default of line 49 for launch_tts (line 97), 2 for
\* launch_html (line 127), 1 for launch_app, launch_comm and poll_telem
\* (lines 147, 162, 189)
LaunchTime(s) ==
    CASE s = "launch_tts" -> 5
      [] s = "launch_html" -> 2
      [] OTHER -> 1

\* exit codes of a process that exits inside its window
ExitCodes == {0, 1}

NoProbe == [exitAt |-> -1, rc |-> -1, passAt |-> -1]

\* logfile is not None: launch_tts (lines 88, 97) and launch_app (lines 144-147)
HasLog(s) == s \in {"launch_tts", "launch_app"}

\* what reading the log (lines 68-71) can come to: every line printed, some
\* lines printed before the read raises, open() raises; no log file at all
LogOutcomes(s) ==
    IF HasLog(s) THEN {"replayed", "partial", "unopened"} ELSE {"nolog"}

\* [LOG] lines reach stderr (line 71)
ReplaysLog(lo) == lo \in {"replayed", "partial"}

Propagated_LogErrorEscapes(lo) ==
    IF lo \in {"partial", "unopened"} THEN "OSError" ELSE "AppWrapperException"

\* the exception that leaves launch_process: lines 72-73 swallow what the
\* log reading raised, line 75 raises the launch failure
Propagated(lo) == "AppWrapperException"

NoReport == [out |-> <<>>, log |-> "none", exc |-> "none", name |-> "none"]

\* lines 66-75
Report(s, lo) ==
    [out |-> <<"error">> \o (IF ReplaysLog(lo) THEN <<"log">> ELSE <<>>),
     log |-> lo, exc |-> Propagated(lo), name |-> s]

AfterLaunchFailure_Retry == "launch"

\* where the exception of line 75 lands: the except Exception clause of main
AfterLaunchFailure == "onExc"

LogFlag == "--log-directly"

\* what an argument list is made of
ArgTokens == {LogFlag, "--dictionary", "--ip-port"}

ArgLists == UNION {[1..n -> ArgTokens] : n \in 0..MaxArgs}

Contains(a, x) == \E i \in DOMAIN a : a[i] = x

CommArgs_AlwaysAppend(a) == a \o <<LogFlag>>

\* launch_comm, line 160
CommArgs(a) == IF ~Contains(a, LogFlag) THEN a \o <<LogFlag>> ELSE a

\* launch_html, lines 109-110
HtmlArgs(a) == IF ~Contains(a, LogFlag) THEN a \o <<LogFlag>> ELSE a

OpensBrowser_Always(c) == TRUE

\* line 128
OpensBrowser(c) == c.gui = "html"

Live(s) == status[s] \in {"window", "alive"}

----------------------------------------------------------------------------
Init ==
    /\ cfg \in Configs
    /\ pc = "plan"
    /\ launchers = <<>>
    /\ procs = <<>>
    /\ cur = "none"
    /\ status = [s \in Steps |-> "unstarted"]
    /\ startOrder = <<>>
    /\ registered = <<>>
    /\ killPos = 0
    /\ termReq = [s \in Steps |-> 0]
    /\ awaited = {}
    /\ waitEnd = "none"
    /\ failed = "none"
    /\ raised = "none"
    /\ exit_code = -1
    /\ shutdowns = 0
    /\ nInt = 0
    /\ intAt = {}
    /\ warned = FALSE
    /\ browser = 0
    /\ invoked = <<>>
    /\ elapsed = 0
    /\ probe = [s \in Steps |-> NoProbe]
    /\ report = NoReport
    /\ argsIn = <<>>
    /\ argsOut = <<>>
    /\ argStage = "off"

\* The interpreter leaves main(): sys.exit(code) or an uncaught exception.
\* The exit-time handlers run next, newest registration first.
LeaveMain(code) ==
    /\ pc' = "atexit"
    /\ exit_code' = code
    /\ shutdowns' = shutdowns + 1
    /\ killPos' = Len(registered)

----------------------------------------------------------------------------
(* Planning, lines 195-231 (outside the try statement of line 234) *)

\* lines 217-220: the bridge is requested and fprime_openmct did not import
PlanImportError ==
    /\ pc = "plan"
    /\ BridgeMissing(cfg)
    /\ launchers' = CorePlan(cfg)
    /\ warned' = WarnApp(cfg)
    /\ raised' = "ImportError"
    /\ LeaveMain(UncaughtStatus("ImportError"))
    /\ UNCHANGED <<cfg, procVars, termReq, waitVars, failed, intVars,
                   invoked, timeVars, report, argVars>>

\* lines 223-225: generating the OpenMCT dictionary raises
PlanDictError ==
    /\ pc = "plan"
    /\ cfg.openmct
    /\ ~BridgeMissing(cfg)
    /\ launchers' = CorePlan(cfg)
    /\ warned' = WarnApp(cfg)
    /\ raised' = "DictionaryError"
    /\ LeaveMain(UncaughtStatus("DictionaryError"))
    /\ UNCHANGED <<cfg, procVars, termReq, waitVars, failed, intVars,
                   invoked, timeVars, report, argVars>>

\* lines 196-231 run to the end
PlanOk ==
    /\ pc = "plan"
    /\ ~BridgeMissing(cfg)
    /\ launchers' = CorePlan(cfg) \o BridgePlan(cfg)
    /\ warned' = WarnApp(cfg)
    /\ pc' = "launch"
    /\ UNCHANGED <<cfg, procVars, exitVars, waitVars, failed, raised,
                   exit_code, intVars,
                   invoked, timeVars, report, argVars>>

----------------------------------------------------------------------------
(* Launching, line 235: procs = [launcher(parsed_args) for launcher in ...] *)

NextLauncher_Last == launchers[Len(launchers)]

NextLauncher == launchers[Len(procs) + 1]

CanLaunch == pc = "launch" /\ cur = "none" /\ Len(procs) < Len(launchers)

\* launch_process -> run_wrapped_application: the process is started and
\* registered for the exit-time kill, the control thread sleeps launch_time
LaunchStart ==
    /\ CanLaunch
    /\ UsesLaunchProcess(NextLauncher)
    /\ cur' = NextLauncher
    /\ status' = [status EXCEPT ![NextLauncher] = "window"]
    /\ startOrder' = Append(startOrder, NextLauncher)
    /\ registered' = Append(registered, NextLauncher)
    /\ invoked' = Append(invoked, NextLauncher)
    /\ elapsed' = 0
    /\ UNCHANGED <<planVars, pc, procs, browser, exitVars, waitVars, failed,
                   raised, exit_code, intVars, probe, report, argVars>>

\* the control thread sleeps in run_wrapped_application
Tick ==
    /\ pc = "launch"
    /\ cur # "none"
    /\ elapsed < LaunchTime(cur)
    /\ elapsed' = elapsed + 1
    /\ UNCHANGED <<planVars, pc, procVars, exitVars, waitVars, failed, raised,
                   exit_code, intVars, invoked, probe, report, argVars>>

\* the process exits before its window has elapsed, with any exit code
EarlyExit ==
    /\ pc = "launch"
    /\ cur # "none"
    /\ status[cur] = "window"
    /\ elapsed < LaunchTime(cur)
    /\ \E code \in ExitCodes :
          probe' = [probe EXCEPT ![cur] =
                       [exitAt |-> elapsed, rc |-> code, passAt |-> -1]]
    /\ status' = [status EXCEPT ![cur] = "exited"]
    /\ UNCHANGED <<planVars, pc, procs, cur, startOrder, registered, browser,
                   exitVars, waitVars, failed, raised, exit_code, intVars,
                   invoked, elapsed, report, argVars>>

\* the process is still running when the window elapses: the launcher
\* returns it (lines 64, 97, 132, 146, 162, 189); launch_html opens the
\* browser first (lines 128-131)
ProbeSuccess ==
    /\ pc = "launch"
    /\ cur # "none"
    /\ status[cur] = "window"
    /\ elapsed = LaunchTime(cur)
    /\ status' = [status EXCEPT ![cur] = "alive"]
    /\ probe' = [probe EXCEPT ![cur].passAt = elapsed]
    /\ procs' = Append(procs, Handle(cur, TRUE))
    /\ browser' = IF cur = "launch_html" /\ OpensBrowser(cfg)
                  THEN browser + 1 ELSE browser
    /\ cur' = "none"
    /\ UNCHANGED <<planVars, pc, startOrder, registered, exitVars, waitVars,
                   failed, raised, exit_code, intVars, invoked, elapsed,
                   report, argVars>>

\* the process has exited inside its window: AppWrapperException; the
\* except clause of launch_process (lines 65-75) prints the error, replays
\* the log and raises the launch failure
LaunchFail ==
    /\ pc = "launch"
    /\ cur # "none"
    /\ status[cur] = "exited"
    /\ failed' = cur
    /\ \E lo \in LogOutcomes(cur) : report' = Report(cur, lo)
    /\ cur' = "none"
    /\ pc' = AfterLaunchFailure
    /\ UNCHANGED <<planVars, procs, status, startOrder, registered, browser,
                   exitVars, waitVars, raised, exit_code, intVars, invoked,
                   timeVars, argVars>>

\* launch_openmct, lines 172-176: what launch_openmct_server returns is
\* returned as it is, without launch_process
LaunchOpenmctReturn ==
    /\ CanLaunch
    /\ ~UsesLaunchProcess(NextLauncher)
    /\ status' = [status EXCEPT ![NextLauncher] = "alive"]
    /\ startOrder' = Append(startOrder, NextLauncher)
    /\ procs' = Append(procs, Handle(NextLauncher, FALSE))
    /\ invoked' = Append(invoked, NextLauncher)
    /\ UNCHANGED <<planVars, pc, cur, registered, browser, exitVars, waitVars,
                   failed, raised, exit_code, intVars, timeVars, report,
                   argVars>>

\* ServerConfig() or launch_openmct_server() raises
LaunchOpenmctRaise ==
    /\ CanLaunch
    /\ ~UsesLaunchProcess(NextLauncher)
    /\ failed' = NextLauncher
    /\ invoked' = Append(invoked, NextLauncher)
    /\ pc' = "onExc"
    /\ UNCHANGED <<planVars, procVars, exitVars, waitVars, raised, exit_code,
                   intVars, timeVars, report, argVars>>

----------------------------------------------------------------------------
(* Running, lines 236-237 *)

\* every launcher returned: line 236, then procs[-1].wait() blocks
BeginWait ==
    /\ pc = "launch"
    /\ cur = "none"
    /\ Len(procs) = Len(launchers)
    /\ awaited' = awaited \cup {TerminalProc(procs).step}
    /\ pc' = "wait"
    /\ UNCHANGED <<planVars, procVars, exitVars, waitEnd, failed, raised,
                   exit_code, intVars,
                   invoked, timeVars, report, argVars>>

\* the awaited process has exited: wait() returns, line 244 returns 0
WaitReturn ==
    /\ pc = "wait"
    /\ \E s \in awaited : status[s] = "exited"
    /\ waitEnd' = "exit"
    /\ LeaveMain(MainReturn("normal"))
    /\ UNCHANGED <<planVars, procVars, termReq, awaited, failed, raised,
                   intVars,
                   invoked, timeVars, report, argVars>>

\* wait() raises an exception other than KeyboardInterrupt
WaitError ==
    /\ pc = "wait"
    /\ waitEnd' = "Exception"
    /\ pc' = "onExc"
    /\ UNCHANGED <<planVars, procVars, exitVars, awaited, failed, raised,
                   exit_code, intVars,
                   invoked, timeVars, report, argVars>>

\* a process that passed its window exits on its own
ProcDies(s) ==
    /\ pc \in {"launch", "wait", "onKI", "onExc", "atexit"}
    /\ status[s] = "alive"
    /\ status' = [status EXCEPT ![s] = "exited"]
    /\ UNCHANGED <<planVars, pc, procs, cur, startOrder, registered, browser,
                   exitVars, waitVars, failed, raised, exit_code, intVars,
                   invoked, timeVars, report, argVars>>

----------------------------------------------------------------------------
(* Operator interrupt: KeyboardInterrupt raised in the control thread *)

Deliver ==
    /\ nInt < MaxInterrupts
    /\ nInt' = nInt + 1
    /\ intAt' = intAt \cup {pc}

\* inside the try statement (lines 235-237): caught by line 238. A process
\* inside its window keeps running and no handle is returned for it.
InterruptInTry ==
    /\ pc \in {"launch", "wait"}
    /\ Deliver
    /\ waitEnd' = IF pc = "wait" THEN "KeyboardInterrupt" ELSE waitEnd
    /\ status' = IF cur # "none" /\ status[cur] = "window"
                 THEN [status EXCEPT ![cur] = "alive"]
                 ELSE status
    /\ cur' = "none"
    /\ pc' = "onKI"
    /\ UNCHANGED <<planVars, procs, startOrder, registered, browser, exitVars,
                   awaited, failed, raised, exit_code,
                   invoked, timeVars, report, argVars>>

\* inside an except clause (line 239 or line 241): the clauses of a try
\* statement do not guard each other, the exception leaves main()
InterruptInHandler ==
    /\ pc \in {"onKI", "onExc"}
    /\ Deliver
    /\ raised' = "KeyboardInterrupt"
    /\ LeaveMain(UncaughtStatus("KeyboardInterrupt"))
    /\ UNCHANGED <<planVars, procVars, termReq, waitVars, failed,
                   invoked, timeVars, report, argVars>>

\* while the exit-time handlers run: the shutdown is not entered again
InterruptAtExit ==
    /\ pc = "atexit"
    /\ Deliver
    /\ UNCHANGED <<planVars, pc, procVars, exitVars, waitVars, failed, raised,
                   exit_code,
                   invoked, timeVars, report, argVars>>

----------------------------------------------------------------------------
(* The except clauses, lines 238-242, and the exit of the interpreter *)

\* lines 238-239, then line 244
HandleKI ==
    /\ pc = "onKI"
    /\ LeaveMain(MainReturn("KeyboardInterrupt"))
    /\ UNCHANGED <<planVars, procVars, termReq, waitVars, failed, raised,
                   intVars,
                   invoked, timeVars, report, argVars>>

\* lines 240-242
HandleExc ==
    /\ pc = "onExc"
    /\ LeaveMain(MainReturn("Exception"))
    /\ UNCHANGED <<planVars, procVars, termReq, waitVars, failed, raised,
                   intVars,
                   invoked, timeVars, report, argVars>>

\* "Processes are killed atexit" (line 243): one handler per registered
\* process; a process that is still alive is asked to terminate, and one
\* that does not respond is abandoned
AtExitKill ==
    /\ pc = "atexit"
    /\ killPos > 0
    /\ LET s == registered[killPos] IN
         IF Live(s)
         THEN /\ termReq' = [termReq EXCEPT ![s] = @ + 1]
              /\ \E st \in {"exited", "alive"} :
                    status' = [status EXCEPT ![s] = st]
         ELSE UNCHANGED <<termReq, status>>
    /\ killPos' = killPos - 1
    /\ UNCHANGED <<planVars, pc, procs, cur, startOrder, registered, browser,
                   shutdowns, waitVars, failed, raised, exit_code, intVars,
                   invoked, timeVars, report, argVars>>

\* every handler has run: the supervisor process is gone
AtExitDone ==
    /\ pc = "atexit"
    /\ killPos = 0
    /\ pc' = "done"
    /\ UNCHANGED <<planVars, procVars, exitVars, waitVars, failed, raised,
                   exit_code, intVars,
                   invoked, timeVars, report, argVars>>

Next ==
    \/ PlanImportError
    \/ PlanDictError
    \/ PlanOk
    \/ LaunchStart
    \/ Tick
    \/ EarlyExit
    \/ ProbeSuccess
    \/ LaunchFail
    \/ LaunchOpenmctReturn
    \/ LaunchOpenmctRaise
    \/ BeginWait
    \/ WaitReturn
    \/ WaitError
    \/ \E s \in Steps : ProcDies(s)
    \/ InterruptInTry
    \/ InterruptInHandler
    \/ InterruptAtExit
    \/ HandleKI
    \/ HandleExc
    \/ AtExitKill
    \/ AtExitDone

Spec == Init /\ [][Next]_vars

----------------------------------------------------------------------------
(* The argument lists of launch_comm and launch_html on their own: the     *)
(* supervisor stands still, reproduce_cli_args returns any list, and the   *)
(* launcher's force-append is applied to it, and to its own result again.  *)

mainVars == <<cfg, pc, launchers, procs, cur, status, startOrder, registered,
              killPos, termReq, awaited, waitEnd, failed, raised, exit_code,
              shutdowns, nInt, intAt, warned, browser, invoked, elapsed,
              probe, report>>

InitArgs ==
    /\ cfg = [zmq |-> FALSE, adapter |-> "ip", app |-> TRUE, gui |-> "html",
              openmct |-> FALSE, installed |-> FALSE]
    /\ pc = "launch"
    /\ launchers = CorePlan(cfg)
    /\ procs = <<>>
    /\ cur = "none"
    /\ status = [s \in Steps |-> "unstarted"]
    /\ startOrder = <<>>
    /\ registered = <<>>
    /\ killPos = 0
    /\ termReq = [s \in Steps |-> 0]
    /\ awaited = {}
    /\ waitEnd = "none"
    /\ failed = "none"
    /\ raised = "none"
    /\ exit_code = -1
    /\ shutdowns = 0
    /\ nInt = 0
    /\ intAt = {}
    /\ warned = FALSE
    /\ browser = 0
    /\ invoked = <<>>
    /\ elapsed = 0
    /\ probe = [s \in Steps |-> NoProbe]
    /\ report = NoReport
    /\ argsIn \in ArgLists
    /\ argsOut = <<>>
    /\ argStage = "reproduced"

\* launch_comm, lines 159-161
ArgsComm ==
    /\ argStage = "reproduced"
    /\ argsOut' = CommArgs(argsIn)
    /\ argStage' = "comm"
    /\ UNCHANGED <<mainVars, argsIn>>

\* launch_html, lines 108-115
ArgsHtml ==
    /\ argStage = "reproduced"
    /\ argsOut' = HtmlArgs(argsIn)
    /\ argStage' = "html"
    /\ UNCHANGED <<mainVars, argsIn>>

\* the force-append of launch_comm applied to its own result
ArgsCommAgain ==
    /\ argStage = "comm"
    /\ argsOut' = CommArgs(argsOut)
    /\ argStage' = "comm twice"
    /\ UNCHANGED <<mainVars, argsIn>>

\* the force-append of launch_html applied to its own result
ArgsHtmlAgain ==
    /\ argStage = "html"
    /\ argsOut' = HtmlArgs(argsOut)
    /\ argStage' = "html twice"
    /\ UNCHANGED <<mainVars, argsIn>>

NextArgs ==
    \/ ArgsComm
    \/ ArgsHtml
    \/ ArgsCommAgain
    \/ ArgsHtmlAgain

SpecArgs == InitArgs /\ [][NextArgs]_vars

----------------------------------------------------------------------------
(* Properties *)

Terminated == pc = "done"

\* C1: the steps execute in the declared plan order, and step k+1 never
\* starts before step k has returned Success, that is, before main holds the
\* handle of step k and the process of step k survived its stabilization
\* window.
C1_InOrderAfterSuccess ==
    /\ Len(startOrder) <= Len(launchers)
    /\ \A k \in 1..Len(startOrder) : startOrder[k] = launchers[k]
    /\ \A k \in 2..Len(startOrder) :
          /\ Len(procs) >= k - 1
          /\ procs[k - 1].step = launchers[k - 1]
          /\ procs[k - 1].stable

C3_WaitExitCodes ==
    Terminated =>
        /\ waitEnd = "KeyboardInterrupt" => exit_code = 0
        /\ waitEnd = "Exception" => exit_code = 1

\* C4 as stated: every step succeeded and the terminal process exited on its
\* own, with no interrupt and no exception; the supervisor shuts down and its
\* exit code is non-zero.
C4_TerminalExitIsNonZero ==
    (Terminated /\ waitEnd = "exit" /\ nInt = 0) =>
        (shutdowns = 1 /\ exit_code # 0)

\* C4 as amended: every step succeeded and the terminal process exited on its
\* own, with no interrupt and no exception; the supervisor shuts down and its
\* exit code is 0.
C4_TerminalExitIsZero ==
    (Terminated /\ waitEnd = "exit" /\ nInt = 0) =>
        (shutdowns = 1 /\ exit_code = 0)

C4_Witness ==
    /\ Terminated
    /\ waitEnd = "exit"
    /\ nInt = 0
    /\ Len(procs) = Len(launchers)

PlanOrder == <<"launch_tts", "launch_comm", "launch_app", "launch_html",
               "launch_openmct", "poll_telem">>

Selected(s) ==
    CASE s = "launch_tts" -> ~cfg.zmq
      [] s = "launch_comm" -> cfg.adapter # "none"
      [] s = "launch_app" -> cfg.app /\ cfg.adapter = "ip"
      [] s = "launch_html" -> TRUE
      [] s \in {"launch_openmct", "poll_telem"} -> cfg.openmct

PlanBuilt == pc # "plan" /\ raised \notin {"ImportError", "DictionaryError"}

\* C5: the launch plan, once built, is exactly the subsequence of [relay,
\* adapter, application, web GUI, bridge server, poller] selected by: relay
\* iff not zmq, adapter iff adapter kind is not "none", application iff an
\* application is configured and the adapter kind is "ip", web GUI always,
\* bridge server and poller iff the bridge is enabled.
C5_PlanIsSelection == PlanBuilt => launchers = SelectSeq(PlanOrder, Selected)

C5_Witness ==
    /\ pc = "wait"
    /\ launchers = PlanOrder

\* C6: when the bridge is enabled and its package is absent, no process is
\* ever started, whatever the other fields are, and main() ends in the
\* ImportError with a non-zero exit status.
C6_MissingBridgeFailsFast ==
    (cfg.openmct /\ ~cfg.installed) =>
        /\ startOrder = <<>>
        /\ \A s \in Steps : status[s] = "unstarted"
        /\ pc # "plan" => (raised = "ImportError" /\ exit_code # 0)

C6_Witness ==
    /\ cfg.openmct
    /\ ~cfg.installed
    /\ ~cfg.zmq
    /\ cfg.adapter = "ip"
    /\ cfg.app
    /\ Terminated
    /\ raised = "ImportError"

\* C7: at most one process is ever awaited, and it is the last step of the
\* plan: the web GUI when the bridge is disabled, the poller when it is
\* enabled. The plan is never empty, and the wait has a process to block on.
C7_OneTerminalAwaited ==
    /\ Cardinality(awaited) <= 1
    /\ pc # "plan" => Len(launchers) >= 1
    /\ pc = "wait" => awaited # {}
    /\ \A s \in awaited :
          /\ s = launchers[Len(launchers)]
          /\ s = IF cfg.openmct THEN "poll_telem" ELSE "launch_html"

C7_Witness ==
    /\ pc = "wait"
    /\ cfg.openmct
    /\ awaited = {"poll_telem"}
    /\ Len(launchers) = 6

\* C8: every handle main holds belongs to a process that survived its full
\* stabilization window, the bridge server step included.
C8_HandlesAreStable == \A i \in DOMAIN procs : procs[i].stable

\* C9: an interrupt delivered while main waits on the terminal process leads
\* to exactly one shutdown and to the clean outcome, however many further
\* interrupts are delivered.
C9_InterruptShutsDownOnceCleanly ==
    (Terminated /\ "wait" \in intAt) => (shutdowns = 1 /\ exit_code = 0)

Range(q) == {q[i] : i \in DOMAIN q}

\* the launch of s was classified Failure by launch_process
LaunchFailed(s) == failed = s /\ report.name = s

\* C11: whenever a dependent exits within its stabilization window during
\* Launching, a Failure is reported, the exit code of the supervisor is 1,
\* and no step that comes later in the plan is ever started.
C11_EarlyExitStopsWithOne ==
    \A s \in Steps :
        (Terminated /\ probe[s].exitAt >= 0 /\ LaunchFailed(s)) =>
            /\ report.out # <<>>
            /\ exit_code = 1
            /\ invoked[Len(invoked)] = s
            /\ startOrder[Len(startOrder)] = s

\* C12 as stated: with adapter kind "none", GUI kind "html", no application
\* path and the bridge disabled, the plan is exactly [relay, web GUI] and the
\* web GUI is the terminal process, whatever the messaging transport is.
C12_MinimalPlanAnyTransport ==
    (PlanBuilt /\ cfg.adapter = "none" /\ cfg.gui = "html" /\ ~cfg.app
        /\ ~cfg.openmct) =>
        /\ launchers = <<"launch_tts", "launch_html">>
        /\ awaited \subseteq {"launch_html"}

\* C12 as amended: with adapter kind "none", GUI kind "html", no application
\* path and the bridge disabled, the plan is exactly [relay, web GUI] when
\* the direct messaging transport is not selected and exactly [web GUI] when
\* it is; the web GUI is the terminal process in both cases.
C12_MinimalPlanByTransport ==
    (PlanBuilt /\ cfg.adapter = "none" /\ cfg.gui = "html" /\ ~cfg.app
        /\ ~cfg.openmct) =>
        /\ ~cfg.zmq => launchers = <<"launch_tts", "launch_html">>
        /\ cfg.zmq => launchers = <<"launch_html">>
        /\ awaited \subseteq {"launch_html"}
        /\ pc = "wait" => awaited = {"launch_html"}

C12_Witness ==
    /\ pc = "wait"
    /\ cfg.adapter = "none" /\ cfg.gui = "html" /\ ~cfg.app /\ ~cfg.openmct
    /\ ~cfg.zmq
    /\ launchers = <<"launch_tts", "launch_html">>
    /\ awaited = {"launch_html"}

\* the stabilization windows as the claim lists them
C13_Window(s) ==
    CASE s = "launch_tts" -> 5
      [] s = "launch_html" -> 2
      [] s \in {"launch_app", "launch_comm", "poll_telem"} -> 1

HasHandle(s) == \E i \in DOMAIN procs : procs[i].step = s

\* C13: for each launch with window W (5 relay, 2 web GUI, 1 application,
\* adapter and poller), a launch is classified Success only when its process
\* was alive after W seconds, and Failure exactly when its process exited
\* strictly before W, whatever its exit code; on Failure the process has
\* already terminated.
C13_WindowClassification ==
    \A s \in Steps \ {"launch_openmct"} :
        /\ HasHandle(s) =>
              (probe[s].passAt = C13_Window(s) /\ probe[s].exitAt = -1)
        /\ LaunchFailed(s) =>
              /\ probe[s].exitAt \in 0..(C13_Window(s) - 1)
              /\ probe[s].rc \in ExitCodes
              /\ status[s] = "exited"
              /\ ~HasHandle(s)
        /\ (cur = s /\ status[s] = "window") => elapsed <= C13_Window(s)

C13_Witness ==
    /\ LaunchFailed("launch_html")
    /\ probe["launch_html"].exitAt = 1
    /\ probe["launch_html"].rc = 0
    /\ HasHandle("launch_tts")
    /\ probe["launch_tts"].passAt = 5

\* C14: on a launch Failure, launch_process prints the error first, replays
\* log lines only for a dependent that has a log path, and then raises the
\* launch failure naming the dependent; whatever opening or reading the log
\* comes to, the exception that propagates is the launch failure.
C14_FailureReport ==
    (failed # "none" /\ UsesLaunchProcess(failed)) =>
        /\ report.name = failed
        /\ report.out # <<>>
        /\ report.out[1] = "error"
        /\ \A i \in 2..Len(report.out) : report.out[i] = "log"
        /\ "log" \in Range(report.out) => failed \in {"launch_tts", "launch_app"}
        /\ report.exc = "AppWrapperException"
        /\ pc # "launch"

C14_Witness ==
    /\ failed = "launch_tts"
    /\ report.log = "unopened"
    /\ report.out = <<"error">>
    /\ report.exc = "AppWrapperException"
    /\ pc = "onExc"

NoRepeat(q) == Cardinality(Range(q)) = Len(q)

\* C15: a failed dependent is never retried: every plan step is invoked at
\* most once, at most one process is started per step, and the number of
\* processes started never exceeds the length of the plan.
C15_NoRetry ==
    /\ NoRepeat(invoked)
    /\ NoRepeat(startOrder)
    /\ Len(invoked) <= Len(launchers)
    /\ Len(startOrder) <= Len(launchers)
    /\ Range(startOrder) \subseteq Range(invoked)
    /\ failed # "none" => invoked[Len(invoked)] = failed

C15_Witness ==
    /\ Terminated
    /\ failed = "launch_comm"
    /\ invoked = <<"launch_tts", "launch_comm">>
    /\ startOrder = <<"launch_tts", "launch_comm">>

IsPrefix(q, r) == Len(q) <= Len(r) /\ \A i \in 1..Len(q) : q[i] = r[i]

\* C16: no launcher is invoked while the plan is being built, the plan never
\* changes once it is built, and the steps launched are a prefix of the plan
\* the configuration alone selects, whatever became of the earlier launches.
C16_PlanFixedBeforeLaunch ==
    /\ [](pc = "plan" => (invoked = <<>> /\ startOrder = <<>>))
    /\ [][pc # "plan" => launchers' = launchers]_vars
    /\ [](PlanBuilt => IsPrefix(invoked, SelectSeq(PlanOrder, Selected)))

C16_Witness ==
    /\ pc = "launch"
    /\ status["launch_tts"] = "exited"
    /\ HasHandle("launch_tts")
    /\ invoked = <<"launch_tts", "launch_comm", "launch_app", "launch_html">>

\* C17 as stated: the application step is skipped with a warning whenever it
\* is not in the plan, and no warning is printed when it is in the plan.
C17_WarnedIffSkipped ==
    pc # "plan" => (warned <=> "launch_app" \notin Range(launchers))

\* C17 as amended: the application step is in the plan iff an application is
\* configured and the adapter kind is "ip"; it is skipped with a warning, and
\* planning goes on, iff an application is configured and the adapter kind
\* is not "ip"; with no application configured it is skipped without a
\* warning; no warning is printed when it is in the plan.
C17_WarnedIffAppWithoutIp ==
    pc # "plan" =>
        /\ warned <=> (cfg.app /\ cfg.adapter # "ip")
        /\ "launch_app" \in Range(launchers) <=> (cfg.app /\ cfg.adapter = "ip")
        /\ "launch_app" \in Range(launchers) => ~warned
        /\ warned => "launch_html" \in Range(launchers)
        /\ (warned /\ ~cfg.openmct) => raised \in {"none", "KeyboardInterrupt"}

C17_Witness ==
    /\ warned
    /\ cfg.adapter = "uart"
    /\ pc = "wait"
    /\ "launch_app" \notin Range(launchers)

\* C18 as stated: the browser is opened only after the web GUI process has
\* survived its window, and exactly when the GUI mode is "browser".
C18_BrowserIffBrowserMode ==
    /\ browser <= 1
    /\ browser = 1 =>
          (HasHandle("launch_html") /\ probe["launch_html"].passAt >= 0)
    /\ HasHandle("launch_html") => (browser = 1 <=> cfg.gui = "browser")

\* C18 as amended: the browser is opened at most once, only after the web
\* GUI process has survived its window (never when the GUI launch failed,
\* never before the GUI is started), and exactly when parsed_args.gui is
\* "html".
C18_BrowserIffHtmlMode ==
    /\ browser <= 1
    /\ browser = 1 =>
          (HasHandle("launch_html") /\ probe["launch_html"].passAt >= 0)
    /\ ~HasHandle("launch_html") => browser = 0
    /\ HasHandle("launch_html") => (browser = 1 <=> cfg.gui = "html")

C18_Witness ==
    /\ browser = 1
    /\ cfg.gui = "html"
    /\ pc = "wait"

Count(a, x) == Cardinality({i \in DOMAIN a : a[i] = x})

\* C19: the argument list the communication adapter and the web GUI are
\* handed always contains the "log directly" flag: it is the re-derived list
\* with the flag appended as its last element when the list lacks it, and the
\* re-derived list unchanged when it has it; applying the force-append twice
\* gives the same list as applying it once.
C19_ForceLogDirectly ==
    /\ argStage # "reproduced" =>
          /\ Contains(argsOut, LogFlag)
          /\ ~Contains(argsIn, LogFlag) =>
                /\ Len(argsOut) = Len(argsIn) + 1
                /\ argsOut[Len(argsOut)] = LogFlag
                /\ SubSeq(argsOut, 1, Len(argsIn)) = argsIn
          /\ Contains(argsIn, LogFlag) => argsOut = argsIn
          /\ Count(argsOut, LogFlag) <= IF Count(argsIn, LogFlag) = 0 THEN 1
                                       ELSE Count(argsIn, LogFlag)

C19_Witness ==
    /\ argStage = "comm twice"
    /\ argsIn = <<"--dictionary", "--ip-port">>
    /\ argsOut = <<"--dictionary", "--ip-port", "--log-directly">>

\* C20: an operator interrupt delivered during Launching aborts the remaining
\* launches and ends the run with exit code 0; exit code 1 during Launching
\* comes only from a failure that is not an interrupt.
C20_LaunchInterruptIsClean ==
    Terminated =>
        /\ "launch" \in intAt => (exit_code = 0 /\ awaited = {})
        /\ (PlanBuilt /\ awaited = {} /\ exit_code = 1) =>
              (failed # "none" /\ "launch" \notin intAt)

====
